---- MODULE Spec2Model ----
(***************************************************************************)
(* arxiv-research-hub: the query builder (buildArxivQuery), the cache      *)
(* keyer (getCacheKey), the feed parser (parseArxivFeed) and the fetch     *)
(* orchestrator with its in-memory cache (fetchPapers), modelled from      *)
(* src/src/lib/queryBuilder.ts and src/src/lib/api.ts; the App component   *)
(* that calls them, modelled from src/unnamed/part_006; and the keyword    *)
(* and date range selectors, modelled from                                 *)
(* src/src/components/KeywordsSelector.tsx and src/unnamed/part_003.       *)
(*                                                                         *)
(* JavaScript strings are TLA+ strings; an optional field of a filter is a *)
(* tuple of length 0 (absent, undefined) or 1 (present).                   *)
(***************************************************************************)
EXTENDS Integers, Sequences, FiniteSets, TLC

VARIABLES
    qParams,    \* the filter handed to buildArxivQuery
    qUrl,       \* <<>> before the call, <<url>> after buildArxivQuery returned
    qSeen,      \* the query parameters the endpoint's URL parser reads from qUrl
    kA, kB,     \* two filters handed to getCacheKey
    kKeyA,      \* <<>> before the call, <<key>> after getCacheKey(kA) returned
    kKeyB,      \* the same for kB
    now,        \* Date.now(), in milliseconds
    cache,      \* the module-level Map: cache key -> <<>> or <<CacheEntry>>
    calls,      \* the fetchPapers invocations so far, in order of invocation
    log,        \* history: network requests issued and cache stores, in order
    pDoc,       \* the document handed to parseArxivFeed
    pOut,       \* <<>> before the call, <<papers>> after parseArxivFeed returned
    filters,    \* the filters the callers of fetchPapers pass
    app,        \* the App component's state (useState)
    loads,      \* the loadPapers invocations of the App, in order of invocation
    kwSel,      \* KeywordsSelector: the selectedKeywords prop and the local state
    drSel       \* DateRangeSelector: the local state and what onRangeChange reported

vars == <<qParams, qUrl, qSeen, kA, kB, kKeyA, kKeyB, now, cache, calls, log,
          filters, pDoc, pOut, app, loads, kwSel, drSel>>
queryVars == <<qParams, qUrl, qSeen>>
keyVars == <<kA, kB, kKeyA, kKeyB>>
fetchVars == <<now, cache, calls, log, filters>>
parseVars == <<pDoc, pOut>>
appVars == <<app, loads>>
widgetVars == <<kwSel, drSel>>

-----------------------------------------------------------------------------
(* Bounds of the model *)

MaxKeywords == 2
MaxPage == 1
MaxCalls == 3
MaxTicks == 2

-----------------------------------------------------------------------------
(* Optional values and strings *)

None == <<>>
Some(x) == <<x>>
IsSome(o) == o /= <<>>

\* A destructuring default (`page = 0`): it applies to undefined only.
OrDefault(o, d) == IF o = <<>> THEN d ELSE o[1]

\* JavaScript truthiness of an optional string: undefined and '' are falsy.
Truthy(o) == o /= <<>> /\ o[1] /= ""

StartsWith(s, p) == Len(p) <= Len(s) /\ SubSeq(s, 1, Len(p)) = p

EndsWith(s, p) == Len(p) <= Len(s) /\ SubSeq(s, Len(s) - Len(p) + 1, Len(s)) = p

\* String.prototype.includes
Contains(s, sub) ==
    \E i \in 1..(Len(s) - Len(sub) + 1) : SubSeq(s, i, i + Len(sub) - 1) = sub

\* The least element of a set of integers, 0 for the empty set
MinOrZero(S) == IF S = {} THEN 0 ELSE CHOOSE i \in S : \A j \in S : i <= j

\* String.prototype.indexOf, 1-based; 0 when sub does not occur
IndexOf(s, sub) ==
    MinOrZero({ i \in 1..(Len(s) - Len(sub) + 1) : SubSeq(s, i, i + Len(sub) - 1) = sub })

\* Array.prototype.join
RECURSIVE Join(_, _)
Join(xs, sep) ==
    IF Len(xs) = 0 THEN ""
    ELSE IF Len(xs) = 1 THEN xs[1]
    ELSE xs[1] \o sep \o Join(Tail(xs), sep)

Chars(s) == { SubSeq(s, i, i) : i \in 1..Len(s) }

Alnum == Chars("ABCDEFGHIJKLMNOPQRSTUVWXYZabcdefghijklmnopqrstuvwxyz0123456789")

\* The characters encodeURIComponent leaves alone, besides Alnum.
UriMarks == Chars("-_.!~*'()")

\* The characters the form serializer leaves alone, besides Alnum.
FormMarks == Chars("*-._")

\* The %XX code of the UTF-8 byte of each ASCII character that some encoder
\* of the model escapes.
PercentCodes ==
    { <<" ", "%20">>, <<"!", "%21">>, <<"\"", "%22">>, <<"%", "%25">>,
      <<"&", "%26">>, <<"'", "%27">>, <<"(", "%28">>, <<")", "%29">>,
      <<"+", "%2B">>, <<",", "%2C">>, <<"/", "%2F">>, <<":", "%3A">>,
      <<"=", "%3D">>, <<"?", "%3F">>, <<"[", "%5B">>, <<"\\", "%5C">>,
      <<"]", "%5D">>, <<"~", "%7E">> }

PercentEncode == [ c \in { p[1] : p \in PercentCodes } |->
                     (CHOOSE p \in PercentCodes : p[1] = c)[2] ]

PercentDecode == [ code \in { p[2] : p \in PercentCodes } |->
                     (CHOOSE p \in PercentCodes : p[2] = code)[1] ]

\* The concatenation of a sequence of strings (by halves, so that the depth
\* of the evaluation stays logarithmic in the length).
RECURSIVE Flatten(_)
Flatten(xs) ==
    IF Len(xs) = 0 THEN ""
    ELSE IF Len(xs) = 1 THEN xs[1]
    ELSE LET m == Len(xs) \div 2
         IN  Flatten(SubSeq(xs, 1, m)) \o Flatten(SubSeq(xs, m + 1, Len(xs)))

\* encodeURIComponent: every character except A-Z a-z 0-9 - _ . ! ~ * ' ( )
\* is replaced by the escape of its UTF-8 bytes.
encodeURIComponent(s) ==
    Flatten([ i \in 1..Len(s) |->
                LET c == SubSeq(s, i, i)
                IN  IF c \in Alnum \/ c \in UriMarks THEN c ELSE PercentEncode[c] ])

\* The application/x-www-form-urlencoded serializer URLSearchParams uses:
\* A-Z a-z 0-9 * - . _ are kept, a space becomes +, every other byte %XX.
formUrlEncode(s) ==
    Flatten([ i \in 1..Len(s) |->
                LET c == SubSeq(s, i, i)
                IN  IF c \in Alnum \/ c \in FormMarks THEN c
                    ELSE IF c = " " THEN "+"
                    ELSE PercentEncode[c] ])

HexDigits == Chars("0123456789ABCDEFabcdef")

\* The characters of a string, as a tuple
CharsOf(s) == [ i \in 1..Len(s) |-> SubSeq(s, i, i) ]

\* A % followed by two hex digits starts an escape; the two digits it
\* consumes are never a % themselves, so the test is local.
IsEscapeAt(cs, i) ==
    /\ i >= 1 /\ i + 2 <= Len(cs)
    /\ cs[i] = "%"
    /\ cs[i + 1] \in HexDigits
    /\ cs[i + 2] \in HexDigits

decodeChars(cs) ==
    Flatten([ i \in 1..Len(cs) |->
                IF IsEscapeAt(cs, i) THEN PercentDecode[cs[i] \o cs[i + 1] \o cs[i + 2]]
                ELSE IF IsEscapeAt(cs, i - 1) \/ IsEscapeAt(cs, i - 2) THEN ""
                ELSE IF cs[i] = "+" THEN " "
                ELSE cs[i] ])

\* The application/x-www-form-urlencoded parser a URL parser applies to a
\* query value: + becomes a space, %XX the byte it names, any other byte
\* (a % without two hex digits too) stays.
formUrlDecode(s) == decodeChars(CharsOf(s))

\* String.prototype.split on a one-character separator: the pieces between
\* the positions of the separator (cuts), from position start on.
RECURSIVE SplitFrom(_, _, _), SplitAt(_, _, _, _)
SplitFrom(s, cuts, start) ==
    IF cuts = {} THEN <<SubSeq(s, start, Len(s))>>
    ELSE SplitAt(s, cuts, start, MinOrZero(cuts))

SplitAt(s, cuts, start, c) ==
    <<SubSeq(s, start, c - 1)>> \o SplitFrom(s, cuts \ {c}, c + 1)

Split(s, sep) == SplitFrom(s, { i \in 1..Len(s) : SubSeq(s, i, i) = sep }, 1)

\* One name=value piece of a query, cut at its first = (at position eq, 0
\* when it has none); both halves are form-decoded.
parsePair(piece, eq) ==
    IF eq = 0 THEN <<formUrlDecode(piece), "">>
    ELSE <<formUrlDecode(SubSeq(piece, 1, eq - 1)),
           formUrlDecode(SubSeq(piece, eq + 1, Len(piece)))>>

parsePieces(pieces) ==
    [ i \in 1..Len(pieces) |-> parsePair(pieces[i], IndexOf(pieces[i], "=")) ]

\* The pieces of the query of a serialized URL: the text after the first ?
\* (at position mark), cut at every &.
queryPieces(url, mark) ==
    IF mark = 0 \/ mark = Len(url) THEN <<>>
    ELSE Split(SubSeq(url, mark + 1, Len(url)), "&")

\* The name/value pairs a URL parser reads from a serialized URL.
parseQueryPairs(url) == parsePieces(queryPieces(url, IndexOf(url, "?")))

\* URLSearchParams.get: the value of the first pair with that name, <<>>
\* (null) when there is none.
firstValue(pairs, at) == IF at = 0 THEN None ELSE Some(pairs[at][2])

searchParamsGet(pairs, name) ==
    firstValue(pairs, MinOrZero({ i \in 1..Len(pairs) : pairs[i][1] = name }))

-----------------------------------------------------------------------------
(* The topic registry and the query builder: src/src/lib/queryBuilder.ts *)

TOPICS ==
    [ t \in { "llm-nlp", "computer-vision", "multimodal", "robotics-rl",
              "ir-rag", "speech-audio", "safety-evals", "ml-systems" } |->
        CASE t = "llm-nlp" ->
               [label |-> "LLMs & NLP", category |-> "cs.CL",
                keywords |-> <<"LLM", "large language model", "transformer", "reasoning", "RAG">>]
          [] t = "computer-vision" ->
               [label |-> "Computer Vision", category |-> "cs.CV",
                keywords |-> <<"diffusion", "detection", "segmentation", "vision-language">>]
          [] t = "multimodal" ->
               [label |-> "Multimodal", category |-> "cs.MM",
                keywords |-> <<"vision-language", "VLM", "multimodal">>]
          [] t = "robotics-rl" ->
               [label |-> "Robotics & RL", category |-> "cs.RO",
                keywords |-> <<"reinforcement learning", "robotics", "policy">>]
          [] t = "ir-rag" ->
               [label |-> "IR/RAG", category |-> "cs.IR",
                keywords |-> <<"retrieval", "RAG", "indexing", "reranking">>]
          [] t = "speech-audio" ->
               [label |-> "Speech/Audio", category |-> "eess.AS",
                keywords |-> <<"speech", "ASR", "TTS", "audio">>]
          [] t = "safety-evals" ->
               [label |-> "Safety/Evals", category |-> "cs.AI",
                keywords |-> <<"safety", "alignment", "evaluation", "benchmark">>]
          [] t = "ml-systems" ->
               [label |-> "ML Systems", category |-> "cs.DC",
                keywords |-> <<"systems", "scaling", "inference", "serving", "quantization">>] ]

TopicKeys == DOMAIN TOPICS

\* Property names every object literal inherits from Object.prototype: the
\* `in` operator finds them too.
ObjectPrototypeKeys ==
    { "constructor", "toString", "valueOf", "hasOwnProperty", "isPrototypeOf",
      "propertyIsEnumerable", "toLocaleString", "__proto__" }

\* Mutant of InTOPICS: the membership test is left out.
InTOPICS_noTest(topic) == TRUE

\* `topic in TOPICS`
InTOPICS(topic) == topic \in TopicKeys \/ topic \in ObjectPrototypeKeys

\* Mutant of CategoryOf: the label is used where the category belongs.
CategoryOf_label(topic) ==
    IF topic \in TopicKeys THEN TOPICS[topic].label ELSE "undefined"

\* `${TOPICS[topic].category}`: an inherited property is a function or an
\* object without a category, and the template prints undefined.
CategoryOf(topic) ==
    IF topic \in TopicKeys THEN TOPICS[topic].category ELSE "undefined"

DefaultCategoryQuery == "cat:cs.AI OR cat:cs.LG OR cat:cs.CL OR cat:cs.CV"

\* kw.replace(/"/g, '\\"')
EscapeQuotes(kw) ==
    Flatten([ i \in 1..Len(kw) |->
                IF SubSeq(kw, i, i) = "\"" THEN "\\\"" ELSE SubSeq(kw, i, i) ])

\* Mutant of QuoteKeyword: the inner double quotes are not escaped.
QuoteKeyword_raw(kw) == "\"" \o kw \o "\""

QuoteKeyword(kw) == "\"" \o EscapeQuotes(kw) \o "\""

RECURSIVE QuoteKeywords(_)
QuoteKeywords(kws) ==
    IF Len(kws) = 0 THEN <<>>
    ELSE <<QuoteKeyword(Head(kws))>> \o QuoteKeywords(Tail(kws))

\* Mutant of CategoryPart: the topic is tested before the search, and the
\* search is added to the topic's clause.
CategoryPart_topicFirst(params) ==
    IF Truthy(params.topic) /\ InTOPICS(params.topic[1])
    THEN "cat:" \o CategoryOf(params.topic[1]) \o
         (IF Truthy(params.search)
          THEN "+AND+all:" \o encodeURIComponent(params.search[1]) ELSE "")
    ELSE IF Truthy(params.search)
    THEN "all:" \o encodeURIComponent(params.search[1])
    ELSE DefaultCategoryQuery

\* The category part of the search query (the if / else if / else).
CategoryPart(params) ==
    IF Truthy(params.search)
    THEN "all:" \o encodeURIComponent(params.search[1])
    ELSE IF Truthy(params.topic) /\ InTOPICS(params.topic[1])
    THEN "cat:" \o CategoryOf(params.topic[1])
    ELSE DefaultCategoryQuery

DatePart(params) ==
    IF Truthy(params.from) /\ Truthy(params.to)
    THEN "+AND+submittedDate:[" \o params.from[1] \o "+TO+" \o params.to[1] \o "]"
    ELSE ""

KeywordPart(params) ==
    LET keywords == OrDefault(params.keywords, <<>>)
    IN  IF Len(keywords) > 0
        THEN "+AND+all:(" \o Join(QuoteKeywords(keywords), "+OR+") \o ")"
        ELSE ""

\* The value of the local variable searchQuery when it is handed to
\* searchParams.set.
SearchQueryOf(params) == CategoryPart(params) \o DatePart(params) \o KeywordPart(params)

\* Mutant of SortByOf: the mode is ignored (the builder before sort modes).
SortByOf_dateOnly(params) == "submittedDate"

SortByOf(params) ==
    IF OrDefault(params.mode, "latest") = "relevance" THEN "relevance" ELSE "submittedDate"

\* URL.toString() after the searchParams.set calls, in the order of the calls.
SerializeUrl(base, pairs) ==
    base \o "?" \o
    Join([i \in 1..Len(pairs) |->
            formUrlEncode(pairs[i][1]) \o "=" \o formUrlEncode(pairs[i][2])], "&")

\* Mutant of StartOf: the page index is used as the offset.
StartOf_page(params) == OrDefault(params.page, 0)

\* (page * pageSize), with the destructuring defaults
StartOf(params) == OrDefault(params.page, 0) * OrDefault(params.pageSize, 20)

buildArxivQuery(params) ==
    LET pageSize == OrDefault(params.pageSize, 20)
    IN  SerializeUrl("http://export.arxiv.org/api/query",
            << <<"search_query", SearchQueryOf(params)>>,
               <<"start", ToString(StartOf(params))>>,
               <<"max_results", ToString(pageSize)>>,
               <<"sortBy", SortByOf(params)>>,
               <<"sortOrder", "descending">> >>)

\* Mutant of getCacheKey: the page is left out of the key.
getCacheKey_noPage(params) ==
    Join(<< OrDefault(params.topic, ""),
            OrDefault(params.mode, "latest"),
            OrDefault(params.search, ""),
            Join(OrDefault(params.keywords, <<>>), ","),
            OrDefault(params.from, ""),
            OrDefault(params.to, "") >>, "-")

getCacheKey(params) ==
    Join(<< OrDefault(params.topic, ""),
            OrDefault(params.mode, "latest"),
            OrDefault(params.search, ""),
            Join(OrDefault(params.keywords, <<>>), ","),
            OrDefault(params.from, ""),
            OrDefault(params.to, ""),
            ToString(OrDefault(params.page, 0)) >>, "-")

-----------------------------------------------------------------------------
(* The feed parser and the fetch orchestrator: src/src/lib/api.ts *)

CACHE_DURATION == 10 * 60 * 1000

\* The step of the model's clock: half the cache duration, so that an entry
\* can be met under the threshold and exactly at it.
TimeStep == CACHE_DURATION \div 2

Whitespace == { " ", "\t", "\n", "\r" }

\* String.prototype.trim
RECURSIVE TrimLeft(_), TrimRight(_)
TrimLeft(s) ==
    IF s /= "" /\ SubSeq(s, 1, 1) \in Whitespace THEN TrimLeft(SubSeq(s, 2, Len(s))) ELSE s

TrimRight(s) ==
    IF s /= "" /\ SubSeq(s, Len(s), Len(s)) \in Whitespace
    THEN TrimRight(SubSeq(s, 1, Len(s) - 1)) ELSE s

Trim(s) == TrimRight(TrimLeft(s))

\* String.prototype.replace with a string pattern: the first occurrence (at
\* position at, 0 when there is none) is replaced.
replaceAt(s, pat, rep, at) ==
    IF at = 0 THEN s
    ELSE SubSeq(s, 1, at - 1) \o rep \o SubSeq(s, at + Len(pat), Len(s))

ReplaceFirst(s, pat, rep) == replaceAt(s, pat, rep, IndexOf(s, pat))

\* entry.querySelector(tag)?.textContent?.trim() || '' on an optional text
TextOf(o) == IF o = None THEN "" ELSE Trim(o[1])

\* The author names and category terms that are kept: the non-empty ones.
RECURSIVE KeepNonEmpty(_)
KeepNonEmpty(xs) ==
    IF Len(xs) = 0 THEN <<>>
    ELSE (IF Head(xs) /= "" THEN <<Head(xs)>> ELSE <<>>) \o KeepNonEmpty(Tail(xs))

TrimAll(xs) == [ i \in 1..Len(xs) |-> Trim(xs[i]) ]

\* The forEach over the entry's link elements, from the links found so far.
RECURSIVE ScanLinks(_, _)
ScanLinks(ls, links) ==
    IF Len(ls) = 0 THEN links
    ELSE LET href == Head(ls).href
             title == Head(ls).title
         IN  ScanLinks(Tail(ls),
                 IF title = "pdf" THEN [links EXCEPT !.pdf = href]
                 ELSE IF Contains(href, "/abs/") THEN [links EXCEPT !.abs = href]
                 ELSE links)

\* The two `if (!links.x && ...)` derivations, in the order of the code.
deriveAbs(links, id) ==
    IF links.abs = "" /\ id /= ""
    THEN [links EXCEPT !.abs = ReplaceFirst(id, "/api/", "/abs/")] ELSE links

\* Mutant of derivePdf: the suffix is left out.
derivePdf_noSuffix(links) ==
    IF links.pdf = "" /\ links.abs /= ""
    THEN [links EXCEPT !.pdf = ReplaceFirst(links.abs, "/abs/", "/pdf/")] ELSE links

derivePdf(links) ==
    IF links.pdf = "" /\ links.abs /= ""
    THEN [links EXCEPT !.pdf = ReplaceFirst(links.abs, "/abs/", "/pdf/") \o ".pdf"] ELSE links

LinksOf(entry, id) ==
    derivePdf(deriveAbs(ScanLinks(entry.links, [abs |-> "", pdf |-> ""]), id))

\* Mutant of paperOf: the authors are not tested.
paperOf_noAuthorTest(entry, id, title, summary, authors) ==
    IF title /= "" /\ summary /= ""
    THEN << [ id |-> id, title |-> title, summary |-> summary, authors |-> authors,
              published |-> TextOf(entry.published),
              categories |-> KeepNonEmpty(entry.categories),
              links |-> LinksOf(entry, id) ] >>
    ELSE <<>>

\* The body of the try block for one entry: <<paper>> when the entry is
\* pushed, <<>> when it is not.
paperOf(entry, id, title, summary, authors) ==
    IF title /= "" /\ summary /= "" /\ Len(authors) > 0
    THEN << [ id |-> id, title |-> title, summary |-> summary, authors |-> authors,
              published |-> TextOf(entry.published),
              categories |-> KeepNonEmpty(entry.categories),
              links |-> LinksOf(entry, id) ] >>
    ELSE <<>>

ParseEntry(entry) ==
    IF entry.throws THEN <<>>
    ELSE paperOf(entry, TextOf(entry.id), TextOf(entry.title), TextOf(entry.summary),
                 KeepNonEmpty(TrimAll(entry.authors)))

RECURSIVE ParseEntries(_)
ParseEntries(es) ==
    IF Len(es) = 0 THEN <<>> ELSE ParseEntry(Head(es)) \o ParseEntries(Tail(es))

\* xmlDoc.querySelectorAll('entry') after parser.parseFromString(xmlText,
\* 'text/xml'). For text that is no XML the result depends on the platform:
\* by the DOM standard the document holds a parsererror element only, while
\* Chromium and WebKit put the parsererror element into the tree built up
\* to the first error, whose entry elements are then found. doc.partial is
\* the platform's choice, doc.entries the entry elements up to the error.
DomEntries(doc) == IF doc.wellFormed \/ doc.partial THEN doc.entries ELSE <<>>

parseArxivFeed(doc) == ParseEntries(DomEntries(doc))

\* Mutant of TotalResultsOf: the total is always the number of papers.
TotalResultsOf_count(doc, papers) == Len(papers)

\* xmlText.match(/<opensearch:totalResults[^>]*>(\d+)<\/opensearch:totalResults>/)
\* and the fallback to papers.length
TotalResultsOf(doc, papers) ==
    IF IsSome(doc.totalResults) THEN doc.totalResults[1] ELSE Len(papers)

\* Mutant of isValidCache: an entry is still served at exactly the duration.
isValidCache_inclusive(entry) == now - entry.timestamp <= CACHE_DURATION

isValidCache(entry) == now - entry.timestamp < CACHE_DURATION

\* Map.prototype.get / set on the cache
CacheGet(key) == IF key \in DOMAIN cache THEN Some(cache[key]) ELSE None

\* Mutant of CacheSet: an entry that exists is kept.
CacheSet_ifAbsent(key, entry) ==
    [ k \in DOMAIN cache \cup {key} |-> IF k \in DOMAIN cache THEN cache[k] ELSE entry ]

\* Mutant of CacheSet: the map is cleared before the entry is set.
CacheSet_clearOthers(key, entry) == [ k \in {key} |-> entry ]

CacheSet(key, entry) ==
    [ k \in DOMAIN cache \cup {key} |-> IF k = key THEN entry ELSE cache[k] ]

-----------------------------------------------------------------------------
(* The filters the model hands to the two pure functions *)

\* Keywords handed to the builder: two topic suggestions (one with a
\* hyphen) and a typed keyword with a double quote in it.
KeywordInputs == { "RAG", "vision-language", "x\"y" }

\* The selections KeywordsSelector can hold over a set of keywords: no
\* keyword twice.
KeywordLists(K) ==
    UNION { { ks \in [1..n -> K] : \A i, j \in 1..n : ks[i] = ks[j] => i = j }
            : n \in 0..MaxKeywords }

OptionalOf(S) == {None} \cup { Some(x) : x \in S }

TopicInputs == OptionalOf(TopicKeys \cup { "astro-ph", "toString" })

ModeInputs == OptionalOf({ "latest", "relevance" })

SearchInputs == OptionalOf({ "", "cat:cs AI" })

PageInputs == OptionalOf(0..MaxPage)

PageSizeInputs == OptionalOf({ 5 })

Filters ==
    [ topic : TopicInputs, mode : ModeInputs, search : SearchInputs,
      keywords : OptionalOf(KeywordLists(KeywordInputs)),
      from : OptionalOf({ "20240101" }), to : OptionalOf({ "20240131" }),
      page : PageInputs, pageSize : PageSizeInputs ]

\* The filter of the App's first load: topic llm-nlp, mode latest, page 0.
FirstFilter ==
    [ topic |-> Some("llm-nlp"), mode |-> Some("latest"), search |-> None,
      keywords |-> None, from |-> None, to |-> None,
      page |-> Some(0), pageSize |-> None ]

\* A document without entry elements and without a total.
EmptyDocument ==
    [ wellFormed |-> TRUE, partial |-> FALSE, entries |-> <<>>, totalResults |-> None ]

\* The App's state after useState: the first topic, latest mode, nothing
\* loaded (part_006:33-47).
AppInitial ==
    [ papers |-> <<>>, loading |-> FALSE, error |-> None,
      currentTopic |-> Some("llm-nlp"), searchQuery |-> "",
      totalResults |-> 0, loadedResults |-> 0, mode |-> "latest",
      selectedDateRange |-> None, customDateRange |-> None,
      selectedKeywords |-> <<>>, currentPage |-> 0, mounted |-> FALSE ]

\* KeywordsSelector before any operation: nothing selected, the input for a
\* custom keyword closed and empty.
KeywordsInitial ==
    [ selectedKeywords |-> <<>>, customKeyword |-> "", showCustomInput |-> FALSE,
      last |-> None ]

\* DateRangeSelector before any operation: the custom inputs closed and
\* empty, nothing reported through onRangeChange.
DateRangeInitial ==
    [ showCustom |-> FALSE, customFrom |-> "", customTo |-> "", reported |-> None ]

-----------------------------------------------------------------------------
(* SpecQuery: buildArxivQuery applied to a filter *)

\* The filters of the invocations: page 0 and page 1 of a topic.
FetchFilters == { FirstFilter, [FirstFilter EXCEPT !.page = Some(1)] }

QueryIdle == qParams = FirstFilter /\ qUrl = None /\ qSeen = None
KeyIdle == kA = FirstFilter /\ kB = FirstFilter /\ kKeyA = None /\ kKeyB = None
FetchIdle ==
    now = 0 /\ cache = <<>> /\ calls = <<>> /\ log = <<>> /\ filters = FetchFilters
ParseIdle == pDoc = EmptyDocument /\ pOut = None
AppIdle == app = AppInitial /\ loads = <<>>
WidgetIdle == kwSel = KeywordsInitial /\ drSel = DateRangeInitial

InitQuery ==
    /\ qParams \in Filters
    /\ qUrl = None
    /\ qSeen = None
    /\ KeyIdle
    /\ FetchIdle
    /\ ParseIdle
    /\ AppIdle
    /\ WidgetIdle

\* The parameters of the remote endpoint (spec section 6 names them).
ParamNames == { "search_query", "start", "max_results", "sortBy", "sortOrder" }

\* buildArxivQuery(qParams) is called, and the endpoint parses the URL.
BuildQuery ==
    /\ qUrl = None
    /\ \E url \in { buildArxivQuery(qParams) } :
         \E pairs \in { parseQueryPairs(url) } :
           /\ qUrl' = Some(url)
           /\ qSeen' = Some([ n \in ParamNames |-> searchParamsGet(pairs, n) ])
    /\ UNCHANGED <<qParams, keyVars, fetchVars, parseVars, appVars, widgetVars>>

NextQuery == BuildQuery

SpecQuery == InitQuery /\ [][NextQuery]_vars

-----------------------------------------------------------------------------
(* Claims about buildArxivQuery, under SpecQuery *)

\* The search_query parameter of the built URL as a URL parser reads it.
SearchQuery == qSeen[1]["search_query"][1]

Built == IsSome(qUrl)

HasDateWindow(f) == Truthy(f.from) /\ Truthy(f.to)

HasKeywords(f) == IsSome(f.keywords) /\ Len(f.keywords[1]) > 0

HasRegistryTopic(f) == IsSome(f.topic) /\ f.topic[1] \in TopicKeys

\* C2: whenever the filter's search is non-empty, the search_query of the
\* built URL starts with the all: clause and holds no cat: clause, whatever
\* the topic is.
C2_SearchOverridesTopic ==
    (Built /\ Truthy(qParams.search)) =>
        /\ StartsWith(SearchQuery, "all:")
        /\ ~Contains(SearchQuery, "cat:")

C2_Witness == Built /\ Truthy(qParams.search) /\ HasRegistryTopic(qParams)

\* C3: whenever the search is empty or absent and the topic is a key of the
\* registry, the search_query holds cat: followed by the category the
\* registry configures for that topic (llm-nlp: cs.CL, computer-vision:
\* cs.CV).
C3_TopicCategoryClause ==
    (Built /\ ~Truthy(qParams.search) /\ HasRegistryTopic(qParams)) =>
        /\ Contains(SearchQuery, "cat:" \o TOPICS[qParams.topic[1]].category)
        /\ qParams.topic[1] = "llm-nlp" => Contains(SearchQuery, "cat:cs.CL")
        /\ qParams.topic[1] = "computer-vision" => Contains(SearchQuery, "cat:cs.CV")

C3_Witness ==
    /\ Built /\ qParams.search = Some("") /\ qParams.topic = Some("computer-vision")
    /\ Contains(SearchQuery, "cat:cs.CV")

\* The topics the builder's `topic in TOPICS` test accepts.
Recognized(f) ==
    Truthy(f.topic) /\ (f.topic[1] \in TopicKeys \/ f.topic[1] \in ObjectPrototypeKeys)

C5_DateClause ==
    (Built /\ HasDateWindow(qParams)) =>
        /\ Contains(SearchQuery, " AND submittedDate:[" \o qParams.from[1]
                                   \o " TO " \o qParams.to[1] \o "]")
        /\ Contains(qUrl[1], "submittedDate:[" \o qParams.from[1]
                               \o "+TO+" \o qParams.to[1] \o "]")

\* The keyword list as the claim writes it: each keyword between double
\* quotes, each double quote of a keyword preceded by a backslash, in the
\* order given, separated by the builder's OR token.
RECURSIVE C6_Escaped(_)
C6_Escaped(kw) ==
    IF kw = "" THEN ""
    ELSE IF Head(kw) = "\"" THEN "\\" \o "\"" \o C6_Escaped(Tail(kw))
    ELSE Head(kw) \o C6_Escaped(Tail(kw))

RECURSIVE C6_Expected(_)
C6_Expected(kws) ==
    IF Len(kws) = 1 THEN "\"" \o C6_Escaped(kws[1]) \o "\""
    ELSE "\"" \o C6_Escaped(kws[1]) \o "\"" \o "+OR+" \o C6_Expected(Tail(kws))

C6_WitnessEmpty ==
    Built /\ qParams.keywords = Some(<<>>) /\ ~Contains(SearchQuery, "all:(")

\* C7: the built URL has start = page * pageSize and max_results = pageSize,
\* where an absent page counts as 0 and an absent pageSize as 20.
C7_Pagination ==
    Built =>
        LET page == IF qParams.page = None THEN 0 ELSE qParams.page[1]
            pageSize == IF qParams.pageSize = None THEN 20 ELSE qParams.pageSize[1]
        IN  /\ qSeen[1]["start"] = Some(ToString(page * pageSize))
            /\ qSeen[1]["max_results"] = Some(ToString(pageSize))

C7_Witness ==
    /\ Built /\ qParams.page = Some(1) /\ qParams.pageSize = None
    /\ qSeen[1]["start"] = Some("20")

\* C8: the built URL has sortBy=relevance exactly when the mode is
\* relevance, sortBy=submittedDate otherwise (absent mode too), and
\* sortOrder=descending always.
C8_Sort ==
    Built =>
        /\ qSeen[1]["sortBy"] =
             Some(IF qParams.mode = Some("relevance") THEN "relevance" ELSE "submittedDate")
        /\ qSeen[1]["sortOrder"] = Some("descending")

C8_Witness ==
    /\ Built /\ qParams.mode = Some("relevance")
    /\ Contains(qUrl[1], "sortBy=relevance&sortOrder=descending")

\* C21 as stated (refuted by the code): for a non-empty search string s, the
\* search_query parameter a URL parser reads from the built URL is all:
\* followed by s itself.
C21_SearchEscapedOnce ==
    (Built /\ Truthy(qParams.search)) => StartsWith(SearchQuery, "all:" \o qParams.search[1])

-----------------------------------------------------------------------------
(* SpecKey: getCacheKey applied to two filters *)

\* Keywords handed to the keyer: two suggestions of llm-nlp, and one typed
\* keyword that holds a comma.
KeyKeywordInputs == { "LLM", "RAG", "LLM,RAG" }

KeyFilters ==
    [ topic : OptionalOf({ "llm-nlp" }), mode : ModeInputs,
      search : OptionalOf({ "gpt-4" }),
      keywords : OptionalOf(KeywordLists(KeyKeywordInputs)),
      from : OptionalOf({ "20240101" }), to : OptionalOf({ "20240131" }),
      page : PageInputs, pageSize : {None} ]

\* The filters that differ from f in at most one field.
OneFieldEdits(f) ==
    { [f EXCEPT !.topic = v] : v \in OptionalOf({ "llm-nlp" }) }
    \cup { [f EXCEPT !.mode = v] : v \in ModeInputs }
    \cup { [f EXCEPT !.search = v] : v \in OptionalOf({ "gpt-4" }) }
    \cup { [f EXCEPT !.keywords = v] : v \in OptionalOf(KeywordLists(KeyKeywordInputs)) }
    \cup { [f EXCEPT !.from = v] : v \in OptionalOf({ "20240101" }) }
    \cup { [f EXCEPT !.to = v] : v \in OptionalOf({ "20240131" }) }
    \cup { [f EXCEPT !.page = v] : v \in PageInputs }

InitKey ==
    /\ kA \in KeyFilters
    /\ kB \in OneFieldEdits(kA)
    /\ kKeyA = None
    /\ kKeyB = None
    /\ QueryIdle
    /\ FetchIdle
    /\ ParseIdle
    /\ AppIdle
    /\ WidgetIdle

\* getCacheKey(kA) is called.
KeyOfA ==
    /\ kKeyA = None
    /\ kKeyA' = Some(getCacheKey(kA))
    /\ UNCHANGED <<kA, kB, kKeyB, queryVars, fetchVars, parseVars, appVars, widgetVars>>

\* getCacheKey(kB) is called, after the call for kA.
KeyOfB ==
    /\ kKeyA /= None
    /\ kKeyB = None
    /\ kKeyB' = Some(getCacheKey(kB))
    /\ UNCHANGED <<kA, kB, kKeyA, queryVars, fetchVars, parseVars, appVars, widgetVars>>

NextKey == KeyOfA \/ KeyOfB

SpecKey == InitKey /\ [][NextKey]_vars

-----------------------------------------------------------------------------
(* Claims about getCacheKey, under SpecKey *)

Keyed == IsSome(kKeyA) /\ IsSome(kKeyB)

PageOf(f) == IF f.page = None THEN 0 ELSE f.page[1]

SameButPage(f, g) == [f EXCEPT !.page = None] = [g EXCEPT !.page = None]

\* C9: two filters that are equal field by field get equal keys, and two
\* filters that differ only in their page (page 0 and page 1, an absent
\* page counting as page 0) get different keys.
C9_KeyDeterministicPageSensitive ==
    Keyed =>
        /\ kA = kB => kKeyA = kKeyB
        /\ (SameButPage(kA, kB) /\ PageOf(kA) /= PageOf(kB)) => kKeyA /= kKeyB

C9_Witness ==
    /\ Keyed /\ SameButPage(kA, kB)
    /\ kA.page = Some(0) /\ kB.page = Some(1)
    /\ HasKeywords(kA) /\ Truthy(kA.search)
    /\ kKeyA /= kKeyB

C9_WitnessEqual == Keyed /\ kA = kB /\ HasKeywords(kA) /\ kKeyA = kKeyB

\* What the App hands to fetchPapers (loadPapers, part_006:49-74): a
\* registry topic or a trimmed non-empty search (a search clears the topic)
\* or, in relevance mode, neither; always a mode; a non-empty keyword list
\* or none; both dates in relevance mode and none otherwise; a page; never a
\* pageSize.
UiProducible(f) ==
    /\ f.topic = None \/ f.topic[1] \in TopicKeys
    /\ f.search = None \/ f.search[1] /= ""
    /\ ~(IsSome(f.topic) /\ IsSome(f.search))
    /\ IsSome(f.mode)
    /\ IsSome(f.topic) \/ IsSome(f.search) \/ f.mode = Some("relevance")
    /\ f.keywords = None \/ Len(f.keywords[1]) > 0
    /\ IsSome(f.from) <=> f.mode = Some("relevance")
    /\ IsSome(f.to) <=> f.mode = Some("relevance")
    /\ IsSome(f.page)
    /\ f.pageSize = None

\* C10 as stated (refuted by the code): two filters the UI can produce that
\* differ in topic, mode, search, keyword list, from, to or page get
\* different keys.
C10_NoCollision ==
    (Keyed /\ UiProducible(kA) /\ UiProducible(kB) /\ kA /= kB) => kKeyA /= kKeyB

-----------------------------------------------------------------------------
(* Spec: fetchPapers invocations over the shared cache, with a clock *)

EntryFull ==
    [ id |-> Some("http://arxiv.org/abs/2401.00001v1"), title |-> Some(" Attention \n"),
      summary |-> Some("We study attention."), published |-> Some("2024-01-02T00:00:00Z"),
      authors |-> <<"Ada L.", " Alan T. ">>, categories |-> <<"cs.CL", "">>,
      links |-> << [href |-> "http://arxiv.org/abs/2401.00001v1", title |-> ""],
                   [href |-> "http://arxiv.org/pdf/2401.00001v1", title |-> "pdf"] >>,
      throws |-> FALSE ]

EntryNoAuthor ==
    [ id |-> Some("http://arxiv.org/abs/2401.00002v1"), title |-> Some("Untitled"),
      summary |-> Some("No author."), published |-> None,
      authors |-> <<"  ">>, categories |-> <<>>, links |-> <<>>, throws |-> FALSE ]

EntryIdOnly ==
    [ id |-> Some("http://arxiv.org/api/2401.00003v2"), title |-> Some("Retrieval"),
      summary |-> Some("We study retrieval."), published |-> Some("2024-01-03T00:00:00Z"),
      authors |-> <<"Grace H.">>, categories |-> <<"cs.IR">>, links |-> <<>>,
      throws |-> FALSE ]

EntryDoi ==
    [ id |-> Some("http://arxiv.org/abs/2401.00005v1"), title |-> Some("Speech"),
      summary |-> Some("We study speech."), published |-> Some("2024-01-05T00:00:00Z"),
      authors |-> <<"Barbara L.">>, categories |-> <<"eess.AS">>,
      links |-> << [href |-> "http://dx.doi.org/10.1000/1", title |-> "doi"] >>,
      throws |-> FALSE ]

\* A feed of three well-formed entries and one without author, with a total
\* of 57.
FeedFull ==
    [ wellFormed |-> TRUE, partial |-> FALSE,
      entries |-> <<EntryFull, EntryNoAuthor, EntryIdOnly, EntryDoi>>,
      totalResults |-> Some(57) ]

\* A feed of one well-formed entry without opensearch:totalResults element.
FeedNoTotal ==
    [ wellFormed |-> TRUE, partial |-> FALSE, entries |-> <<EntryIdOnly>>,
      totalResults |-> None ]

FeedEmpty == EmptyDocument

Feeds == { FeedFull, FeedNoTotal }

\* What fetch() resolves with: a success with a feed as body, or a
\* non-success status.
Responses ==
    { [ ok |-> TRUE, status |-> 200, statusText |-> "OK", body |-> d ] : d \in Feeds }
    \cup { [ ok |-> FALSE, status |-> 503, statusText |-> "Service Unavailable",
             body |-> FeedEmpty ] }

\* Mutant of StatusMessage: the status is left out of the message.
StatusMessage_generic(r) == "ArXiv API returned an error"

\* new Error(`ArXiv API returned ${response.status}: ${response.statusText}`)
StatusMessage(r) == "ArXiv API returned " \o ToString(r.status) \o ": " \o r.statusText

\* What fetch() rejects with, and what response.text() rejects with: a
\* TypeError with the platform's message.
FetchError == [ isError |-> TRUE, message |-> "Failed to fetch", status |-> None ]

BodyError == [ isError |-> TRUE, message |-> "Failed to read body", status |-> None ]

\* A rejection with a value that is no Error (a fetch replaced by a stub
\* that rejects with a string).
NonError == [ isError |-> FALSE, message |-> "", status |-> None ]

FetchRejections == { FetchError, NonError }

\* Mutant of ApiErrorOf: the thrown value is passed on as it is.
ApiErrorOf_rethrow(thrown) == thrown

\* The catch block: the thrown value becomes an APIError.
ApiErrorOf(thrown) ==
    [ message |-> IF thrown.isError THEN thrown.message
                  ELSE "Network error occurred. Please check your connection and try again.",
      status |-> IF thrown.isError THEN thrown.status ELSE None ]

Event(kind, call, key, url, data) ==
    [ kind |-> kind, call |-> call, at |-> now, key |-> key, url |-> url, data |-> data ]

Init ==
    /\ now = 0
    /\ cache = <<>>
    /\ calls = <<>>
    /\ log = <<>>
    /\ filters = FetchFilters
    /\ QueryIdle
    /\ KeyIdle
    /\ ParseIdle
    /\ AppIdle
    /\ WidgetIdle

\* Date.now() moves on.
Tick ==
    /\ now < MaxTicks * TimeStep
    /\ now' = now + TimeStep
    /\ UNCHANGED <<cache, calls, log, filters, queryVars, keyVars, parseVars, appVars, widgetVars>>

\* fetchPapers(params) is invoked and runs to its first await or to its
\* return: a valid cache entry is returned, otherwise the request is issued.
hitOrRequest(params, key, cached, id) ==
    IF IsSome(cached) /\ isValidCache(cached[1])
    THEN /\ calls' = Append(calls,
                [ params |-> params, key |-> key, at |-> now, pc |-> "resolved",
                  response |-> None, body |-> None, result |-> Some(cached[1].data), error |-> None ])
         /\ log' = log \o << Event("invoke", id, key, None, None),
                             Event("return", id, key, None, Some(cached[1].data)) >>
    ELSE /\ calls' = Append(calls,
                [ params |-> params, key |-> key, at |-> now, pc |-> "fetch",
                  response |-> None, body |-> None, result |-> None, error |-> None ])
         /\ log' = log \o << Event("invoke", id, key, None, None),
                             Event("request", id, key, Some(buildArxivQuery(params)), None) >>

Invoke ==
    /\ Len(calls) < MaxCalls
    /\ \E params \in filters :
         \E key \in { getCacheKey(params) } :
            hitOrRequest(params, key, CacheGet(key), Len(calls) + 1)
    /\ UNCHANGED <<now, cache, filters, queryVars, keyVars, parseVars, appVars, widgetVars>>

\* Mutant of Reject: the failure is stored in the cache as an empty result.
Reject_cachesFailure(i, thrown, response) ==
    /\ calls' = [calls EXCEPT ![i].pc = "rejected", ![i].response = response,
                              ![i].body = None,
                              ![i].error = Some(ApiErrorOf(thrown))]
    /\ log' = Append(log, Event("throw", i, calls[i].key, None, Some(thrown)))
    /\ cache' = CacheSet(calls[i].key,
                    [ data |-> [ papers |-> <<>>, totalResults |-> 0 ], timestamp |-> now ])
    /\ UNCHANGED <<now, filters, queryVars, keyVars, parseVars, appVars, widgetVars>>

\* Mutant of Reject: the first failure of a call issues the request again.
Reject_retryOnce(i, thrown, response) ==
    /\ IF \E k \in DOMAIN log : log[k].kind = "throw" /\ log[k].call = i
       THEN /\ calls' = [calls EXCEPT ![i].pc = "rejected", ![i].response = response,
                                      ![i].body = None,
                                      ![i].error = Some(ApiErrorOf(thrown))]
            /\ log' = Append(log, Event("throw", i, calls[i].key, None, Some(thrown)))
       ELSE /\ calls' = [calls EXCEPT ![i].pc = "fetch", ![i].body = None]
            /\ log' = log \o << Event("throw", i, calls[i].key, None, Some(thrown)),
                                Event("request", i, calls[i].key,
                                      Some(buildArxivQuery(calls[i].params)), None) >>
    /\ UNCHANGED <<now, cache, filters, queryVars, keyVars, parseVars, appVars, widgetVars>>

\* The catch block of call i rejects the promise with the APIError.
Reject(i, thrown, response) ==
    /\ calls' = [calls EXCEPT ![i].pc = "rejected", ![i].response = response,
                              ![i].body = None,
                              ![i].error = Some(ApiErrorOf(thrown))]
    /\ log' = Append(log, Event("throw", i, calls[i].key, None, Some(thrown)))
    /\ UNCHANGED <<now, cache, filters, queryVars, keyVars, parseVars, appVars, widgetVars>>

\* fetch() of call i rejects: no response was received.
FetchFails ==
    \E i \in 1..Len(calls) :
        /\ calls[i].pc = "fetch"
        /\ \E thrown \in FetchRejections : Reject(i, thrown, None)

\* fetch() of call i resolves with a response: a non-success status throws,
\* otherwise the body is awaited.
FetchResponds ==
    \E i \in 1..Len(calls) : \E r \in Responses :
        /\ calls[i].pc = "fetch"
        /\ IF ~r.ok
           THEN Reject(i, [ isError |-> TRUE, status |-> None,
                            message |-> StatusMessage(r) ],
                       Some([ status |-> r.status, statusText |-> r.statusText ]))
           ELSE /\ calls' = [calls EXCEPT ![i].pc = "text", ![i].body = Some(r.body),
                        ![i].response = Some([ status |-> r.status,
                                               statusText |-> r.statusText ])]
                /\ UNCHANGED <<now, cache, log, filters, queryVars, keyVars, parseVars, appVars, widgetVars>>

\* response.text() of call i rejects.
TextFails ==
    \E i \in 1..Len(calls) :
        /\ calls[i].pc = "text"
        /\ Reject(i, BodyError, calls[i].response)

\* Mutant of storeAndReturn: the entry is stamped with the time of the
\* invocation.
storeAndReturn_invokeTime(i, result) ==
    /\ cache' = CacheSet(calls[i].key, [ data |-> result, timestamp |-> calls[i].at ])
    /\ calls' = [calls EXCEPT ![i].pc = "resolved", ![i].result = Some(result)]
    /\ log' = log \o << Event("store", i, calls[i].key, None, Some(result)),
                        Event("return", i, calls[i].key, None, Some(result)) >>

\* The result of call i is stored under its key and returned.
storeAndReturn(i, result) ==
    /\ cache' = CacheSet(calls[i].key, [ data |-> result, timestamp |-> now ])
    /\ calls' = [calls EXCEPT ![i].pc = "resolved", ![i].result = Some(result)]
    /\ log' = log \o << Event("store", i, calls[i].key, None, Some(result)),
                        Event("return", i, calls[i].key, None, Some(result)) >>

\* response.text() of call i resolves: the body is parsed, the total is
\* read, the result is stored in the cache and returned.
TextArrives ==
    \E i \in 1..Len(calls) :
        /\ calls[i].pc = "text"
        /\ \E papers \in { parseArxivFeed(calls[i].body[1]) } :
              storeAndReturn(i, [ papers |-> papers,
                                  totalResults |-> TotalResultsOf(calls[i].body[1], papers) ])
        /\ UNCHANGED <<now, filters, queryVars, keyVars, parseVars, appVars, widgetVars>>

Next == Tick \/ Invoke \/ FetchFails \/ FetchResponds \/ TextFails \/ TextArrives

Spec == Init /\ [][Next]_vars

-----------------------------------------------------------------------------
(* Claims on the cache of fetchPapers, checked under Spec *)

StoreEvents == { i \in DOMAIN log : log[i].kind = "store" }

\* The invocations after log position i that carry the filter of the call
\* at position i.
SameFilterInvokes(i) ==
    { j \in DOMAIN log : /\ j > i
                         /\ log[j].kind = "invoke"
                         /\ calls[log[j].call].params = calls[log[i].call].params }

Requested(c) == \E k \in DOMAIN log : log[k].kind = "request" /\ log[k].call = c

\* Another result was stored under the same key between positions i and j.
Superseded(i, j) ==
    \E k \in StoreEvents : i < k /\ k < j /\ log[k].key = log[i].key

\* The invocation at position j is answered from the result stored at
\* position i, without a request.
AnsweredFrom(i, j) ==
    /\ ~Requested(log[j].call)
    /\ calls[log[j].call].pc = "resolved"
    /\ calls[log[j].call].result = log[i].data

CacheRule(i, j) ==
    IF log[j].at - log[i].at < CACHE_DURATION
    THEN AnsweredFrom(i, j)
    ELSE Requested(log[j].call)

\* C1 as stated: for every result stored at t1 and every later invocation
\* with the identical filter at t2, the invocation is answered from that
\* stored result without a request when t2 - t1 is under 10 minutes, and
\* issues a request when 10 minutes have elapsed.
C1_Original ==
    \A i \in StoreEvents : \A j \in SameFilterInvokes(i) : CacheRule(i, j)

\* C1, amended: for every result stored at t1 and every later invocation with
\* the identical filter at t2, provided that no other result was stored under
\* the same key in between, the invocation is answered from that stored
\* result without a request when t2 - t1 is under 10 minutes, and issues a
\* request when 10 minutes have elapsed.
C1_CacheTtl ==
    \A i \in StoreEvents : \A j \in SameFilterInvokes(i) :
        ~Superseded(i, j) => CacheRule(i, j)

\* A result is stored, an invocation 5 minutes later is answered from it, and
\* an invocation 10 minutes later issues a request.
C1_Witness ==
    \E i \in StoreEvents : \E j, k \in SameFilterInvokes(i) :
        /\ j < k
        /\ ~Superseded(i, k)
        /\ log[j].at - log[i].at > 0
        /\ log[j].at - log[i].at < CACHE_DURATION
        /\ AnsweredFrom(i, j)
        /\ log[k].at - log[i].at >= CACHE_DURATION
        /\ Requested(log[k].call)

-----------------------------------------------------------------------------
(* Claims on the outcomes of fetchPapers, checked under Spec *)

CallIds == DOMAIN calls

\* Call c received a successful response, read its body and returned.
Succeeded(c) == calls[c].pc = "resolved" /\ IsSome(calls[c].body)

\* C14: a call that received a successful response and read its body returns
\* the papers parsed from the body, with totalResults equal to the number of
\* the body's opensearch:totalResults element when there is one and to the
\* number of parsed papers otherwise; the feed of three well-formed entries
\* with a total of 57 yields 3 papers and totalResults 57.
C14_PapersAndTotal ==
    \A c \in CallIds : Succeeded(c) =>
        /\ calls[c].result[1].papers = ParseEntries(calls[c].body[1].entries)
        /\ IsSome(calls[c].body[1].totalResults) =>
              calls[c].result[1].totalResults = calls[c].body[1].totalResults[1]
        /\ ~IsSome(calls[c].body[1].totalResults) =>
              calls[c].result[1].totalResults = Len(calls[c].result[1].papers)
        /\ calls[c].body[1] = FeedFull =>
              /\ Len(calls[c].result[1].papers) = 3
              /\ calls[c].result[1].totalResults = 57

\* One call returned 3 papers with a total of 57, another one paper with a
\* total of 1 from the feed without total.
C14_Witness ==
    \E c, d \in CallIds :
        /\ Succeeded(c) /\ calls[c].body[1] = FeedFull
        /\ calls[c].result[1].totalResults = 57
        /\ Succeeded(d) /\ calls[d].body[1] = FeedNoTotal
        /\ calls[d].result[1].totalResults = 1

\* Call c received a response with a non-success status.
GotFailureStatus(c) ==
    IsSome(calls[c].response) /\ calls[c].response[1].status \notin 200..299

\* C15: a call whose response has a non-success status S is rejected and
\* holds no result, and the message of the rejection contains S and the
\* reason phrase.
C15_StatusRejects ==
    \A c \in CallIds : GotFailureStatus(c) =>
        /\ calls[c].pc = "rejected"
        /\ calls[c].result = None
        /\ IsSome(calls[c].error)
        /\ Contains(calls[c].error[1].message, ToString(calls[c].response[1].status))
        /\ Contains(calls[c].error[1].message, calls[c].response[1].statusText)

\* A call was answered with 503 Service Unavailable.
C15_Witness ==
    \E c \in CallIds :
        /\ GotFailureStatus(c)
        /\ calls[c].response[1].status = 503
        /\ calls[c].error[1].message = "ArXiv API returned 503: Service Unavailable"

ThrowEvents == { i \in DOMAIN log : log[i].kind = "throw" }

GenericMessage == "Network error occurred. Please check your connection and try again."

\* C16: every call that fails is rejected with a value of the shape
\* {message, status}, whose message is the message of the failure, or the
\* generic message when the failure is no Error; a call is rejected only
\* through its catch block, never with the thrown value itself.
C16_NormalizedError ==
    /\ \A c \in CallIds :
          calls[c].pc = "rejected" =>
              /\ IsSome(calls[c].error)
              /\ DOMAIN calls[c].error[1] = { "message", "status" }
              /\ \E i \in ThrowEvents : log[i].call = c
    /\ \A i \in ThrowEvents :
          /\ calls[log[i].call].pc = "rejected"
          /\ calls[log[i].call].error[1].message =
                IF log[i].data[1].isError THEN log[i].data[1].message ELSE GenericMessage

\* Three calls failed: one without response, one on the status, one on the
\* body; and one failed with a value that is no Error.
C16_Witness ==
    /\ \E c \in CallIds : calls[c].pc = "rejected" /\ calls[c].error[1].message = "Failed to fetch"
    /\ \E c \in CallIds : calls[c].pc = "rejected" /\ GotFailureStatus(c)
    /\ \E c \in CallIds : calls[c].pc = "rejected"
                          /\ calls[c].error[1].message = "Failed to read body"

C16_WitnessGeneric ==
    \E i \in ThrowEvents :
        ~log[i].data[1].isError /\ calls[log[i].call].error[1].message = GenericMessage

\* The log position at which call c was invoked.
InvokedAt(c) == CHOOSE i \in DOMAIN log : log[i].kind = "invoke" /\ log[i].call = c

\* A result was stored under key between log positions i and j.
StoredBetween(key, i, j) ==
    \E k \in StoreEvents : i < k /\ k < j /\ log[k].key = key

\* The entry of the cache for each key is the last result stored for it, and
\* there is no entry for a key without a stored result.
CacheIsLastStores ==
    /\ DOMAIN cache = { log[i].key : i \in StoreEvents }
    /\ \A i \in StoreEvents :
          ~StoredBetween(log[i].key, i, Len(log) + 1) =>
              cache[log[i].key] = [ data |-> log[i].data[1], timestamp |-> log[i].at ]

\* C17: a call that fails stores nothing, the cache changing through the
\* stores of successful calls only; and an invocation with the filter of a
\* failed call, with no result stored under the key since the failed call
\* was invoked, issues a request.
C17_FailureLeavesCache ==
    /\ CacheIsLastStores
    /\ \A i \in ThrowEvents :
          /\ \A k \in StoreEvents : log[k].call /= log[i].call
          /\ \A j \in SameFilterInvokes(i) :
                ~StoredBetween(log[i].key, InvokedAt(log[i].call), j)
                    => Requested(log[j].call)

\* A call failed while the cache held no entry for its key, and a later call
\* with the same filter issued a request.
C17_Witness ==
    \E i \in ThrowEvents : \E j \in SameFilterInvokes(i) :
        /\ log[i].key \notin DOMAIN cache
        /\ Requested(log[j].call)
        /\ log[j].at > log[i].at

\* C18: a call that misses the cache and succeeds stores its result under
\* the key of its filter with the time of storing as timestamp, whatever the
\* cache held for that key; in the state in which it returns, the entry of
\* the cache for that key is the returned result.
C18_StoreOnSuccess ==
    /\ \A c \in CallIds : Succeeded(c) =>
          \E i \in StoreEvents :
              /\ log[i].call = c
              /\ log[i].key = getCacheKey(calls[c].params)
              /\ log[i].data = calls[c].result
              /\ log[i + 1].kind = "return" /\ log[i + 1].call = c
              /\ log[i + 1].at = log[i].at
    /\ (Len(log) > 1 /\ log[Len(log) - 1].kind = "store") =>
          cache[log[Len(log)].key] =
              [ data |-> calls[log[Len(log)].call].result[1],
                timestamp |-> log[Len(log) - 1].at ]

\* A call has just returned a result that replaced a different entry of its
\* key, stored 5 minutes earlier, and it had been invoked before it stored.
C18_Witness ==
    /\ Len(log) > 1 /\ log[Len(log) - 1].kind = "store"
    /\ \E k \in StoreEvents :
          /\ k < Len(log) - 1
          /\ log[k].key = log[Len(log)].key
          /\ log[k].data /= log[Len(log)].data
          /\ log[k].at < log[Len(log)].at
    /\ calls[log[Len(log)].call].at < log[Len(log)].at
    /\ cache[log[Len(log)].key].timestamp = now

\* Calls c and d have the same key, c before d, and d was invoked before c
\* stored or failed, with no valid entry for the key.
Overlap(c, d) ==
    /\ c < d
    /\ calls[c].key = calls[d].key
    /\ Requested(c)
    /\ \A k \in DOMAIN log :
          (log[k].call = c /\ log[k].kind \in { "store", "throw" }) => k > InvokedAt(d)
    /\ \A k \in StoreEvents :
          (k < InvokedAt(d) /\ log[k].key = calls[d].key)
              => log[InvokedAt(d)].at - log[k].at >= CACHE_DURATION

\* The log position at which call c stored its result.
StoredAt(c) == CHOOSE i \in StoreEvents : log[i].call = c

\* C19: of two overlapping calls for the same key with no valid entry, the
\* second issues its own request as the first did; and once both have
\* succeeded, with no later store under the key, the entry of the cache for
\* the key is the result of the one that completed last.
C19_NoCoalescing ==
    \A c, d \in CallIds : Overlap(c, d) =>
        /\ Requested(d)
        /\ (Succeeded(c) /\ Succeeded(d)
            /\ ~StoredBetween(calls[c].key, StoredAt(c), Len(log) + 1)) =>
               cache[calls[c].key].data = calls[c].result[1]
        /\ (Succeeded(c) /\ Succeeded(d)
            /\ ~StoredBetween(calls[c].key, StoredAt(d), Len(log) + 1)) =>
               cache[calls[c].key].data = calls[d].result[1]

\* Two overlapping calls were both answered, the one invoked second
\* completing first, with different feeds.
C19_Witness ==
    \E c, d \in CallIds :
        /\ Overlap(c, d)
        /\ Succeeded(c) /\ Succeeded(d)
        /\ StoredAt(d) < StoredAt(c)
        /\ calls[c].result /= calls[d].result
        /\ cache[calls[c].key].data = calls[c].result[1]

-----------------------------------------------------------------------------
(* SpecPageSize: fetchPapers called with filters that differ in pageSize *)

\* The filters of the invocations: the first page of a topic with the
\* default page size and with a page size of 5.
PageSizeFilters == { FirstFilter, [FirstFilter EXCEPT !.pageSize = Some(5)] }

InitPageSize ==
    /\ now = 0
    /\ cache = <<>>
    /\ calls = <<>>
    /\ log = <<>>
    /\ filters = PageSizeFilters
    /\ QueryIdle
    /\ KeyIdle
    /\ ParseIdle
    /\ AppIdle
    /\ WidgetIdle

SpecPageSize == InitPageSize /\ [][Next]_vars

RequestEvents == { i \in DOMAIN log : log[i].kind = "request" }

\* Call c was answered from the cache.
CacheHit(c) == calls[c].pc = "resolved" /\ ~Requested(c)

\* C22 as stated (refuted by the code): every call answered from the cache
\* returns a result that was stored by an earlier call whose request went to
\* the URL buildArxivQuery builds for the filter of the answered call, so
\* that filters differing in pageSize only never share an entry.
C22_HitMatchesRequest ==
    \A c \in CallIds : CacheHit(c) =>
        \E i \in StoreEvents : \E r \in RequestEvents :
            /\ i < InvokedAt(c)
            /\ log[r].call = log[i].call
            /\ log[i].data = calls[c].result
            /\ log[r].url = Some(buildArxivQuery(calls[c].params))

-----------------------------------------------------------------------------
(* Claims on the requests and stores of fetchPapers, checked under Spec *)

\* C23 as stated (refuted by the code): a call whose response has a
\* non-success status S is rejected with an error whose status is S.
C23_StatusCarried ==
    \A c \in CallIds : GotFailureStatus(c) =>
        /\ IsSome(calls[c].error)
        /\ calls[c].error[1].status = Some(calls[c].response[1].status)

RequestsOf(c) == { i \in RequestEvents : log[i].call = c }

\* The cache held a valid entry for the key of call c when c was invoked.
ValidAtInvoke(c) ==
    \E k \in StoreEvents :
        /\ k < InvokedAt(c)
        /\ log[k].key = calls[c].key
        /\ ~StoredBetween(calls[c].key, k, InvokedAt(c))
        /\ log[InvokedAt(c)].at - log[k].at < CACHE_DURATION

\* C24: a call issues no request when the cache held a valid entry for its
\* key at its invocation, and exactly one otherwise; the request is issued
\* by the invocation itself, and no request follows a failure of the call.
C24_AtMostOneRequest ==
    \A c \in CallIds :
        /\ Cardinality(RequestsOf(c)) = IF ValidAtInvoke(c) THEN 0 ELSE 1
        /\ \A i \in RequestsOf(c) : i = InvokedAt(c) + 1
        /\ \A i \in ThrowEvents : log[i].call = c =>
              /\ calls[c].pc = "rejected"
              /\ \A r \in RequestsOf(c) : r < i

\* One call was answered from the cache, one missed and succeeded, and one
\* missed and failed, each of the latter two with one request.
C24_Witness ==
    \E c, d, e \in CallIds :
        /\ CacheHit(c) /\ RequestsOf(c) = {}
        /\ Succeeded(d) /\ Cardinality(RequestsOf(d)) = 1
        /\ calls[e].pc = "rejected" /\ Cardinality(RequestsOf(e)) = 1

\* Call c completes in this step, with a result or with an error.
Completes(c) ==
    /\ c \in CallIds
    /\ calls[c].pc \in { "fetch", "text" }
    /\ calls'[c].pc \in { "resolved", "rejected" }

\* C25: a step in which a call completes leaves every entry of the cache as
\* it was, except the entry under the key of the call's own filter; and the
\* cache changes in such steps only.
C25_OwnKeyOnly ==
    [][ /\ \A c \in CallIds : Completes(c) =>
              /\ DOMAIN cache' \subseteq DOMAIN cache \cup { getCacheKey(calls[c].params) }
              /\ \A k \in DOMAIN cache \ { getCacheKey(calls[c].params) } :
                    k \in DOMAIN cache' /\ cache'[k] = cache[k]
        /\ cache' /= cache => \E c \in CallIds : Completes(c) ]_vars

\* Call c was invoked before call d for another key, d stored its result
\* first, and the late result of c was stored under the key of c, the entry
\* of d being still the result of d.
C25_Witness ==
    \E c, d \in CallIds :
        /\ c < d
        /\ calls[c].key /= calls[d].key
        /\ Succeeded(c) /\ Succeeded(d)
        /\ StoredAt(d) < StoredAt(c)
        /\ calls[c].result /= calls[d].result
        /\ cache[calls[c].key].data = calls[c].result[1]
        /\ cache[calls[d].key].data = calls[d].result[1]

-----------------------------------------------------------------------------
(* SpecParse: parseArxivFeed applied to a document *)

MaxEntries == 2

\* Entry elements handed to the parser: the complete entry, and entries that
\* lack one thing each, hold white space only, carry other link elements,
\* or make the extraction throw.
EntryInputs ==
    { EntryFull, EntryNoAuthor, EntryIdOnly,
      [EntryFull EXCEPT !.title = None],
      [EntryFull EXCEPT !.title = Some(" \n ")],
      [EntryFull EXCEPT !.summary = None],
      [EntryFull EXCEPT !.summary = Some("")],
      [EntryFull EXCEPT !.authors = <<>>],
      [EntryFull EXCEPT !.throws = TRUE],
      [EntryIdOnly EXCEPT !.id = Some(" http://arxiv.org/abs/2401.00004v1 \n")],
      [EntryIdOnly EXCEPT !.id = None],
      [EntryIdOnly EXCEPT !.links = << [href |-> "", title |-> "pdf"] >>],
      [EntryIdOnly EXCEPT !.links = << [href |-> "http://arxiv.org/pdf/2401.00003v2", title |-> "pdf"] >>],
      [EntryIdOnly EXCEPT !.links = << [href |-> "http://dx.doi.org/10.1000/1", title |-> "doi"] >>],
      [EntryIdOnly EXCEPT !.id = None,
                          !.links = << [href |-> "http://arxiv.org/pdf/2401.00003v2", title |-> "pdf"] >>] }

\* The documents: text that parses as XML with up to MaxEntries entry
\* elements, and text that does not parse as XML after as many entry
\* elements, on a platform of either kind.
Documents ==
    [ wellFormed : BOOLEAN, partial : BOOLEAN,
      entries : UNION { [1..n -> EntryInputs] : n \in 0..MaxEntries },
      totalResults : {None} ]

InitParse ==
    /\ pDoc \in Documents
    /\ pOut = None
    /\ QueryIdle
    /\ KeyIdle
    /\ FetchIdle
    /\ AppIdle
    /\ WidgetIdle

\* parseArxivFeed(pDoc) is called.
ParseFeed ==
    /\ pOut = None
    /\ pOut' = Some(parseArxivFeed(pDoc))
    /\ UNCHANGED <<pDoc, queryVars, keyVars, fetchVars, appVars, widgetVars>>

NextParse == ParseFeed

SpecParse == InitParse /\ [][NextParse]_vars

-----------------------------------------------------------------------------
(* Claims about parseArxivFeed, under SpecParse *)

Parsed == IsSome(pOut)

\* C11 as stated (refuted by the code): for a document without entry
\* elements (the empty document included) and for text that is no XML,
\* parseArxivFeed returns the empty list.
C11_EmptyOnNoEntries ==
    Parsed => ((~pDoc.wellFormed \/ Len(pDoc.entries) = 0) => pOut[1] = <<>>)

\* The entries the claim calls valid: extraction does not throw, the trimmed
\* title and the trimmed summary are non-empty, and one author name at least
\* is non-empty once trimmed.
ValidEntry(en) ==
    /\ ~en.throws
    /\ en.title /= None /\ Trim(en.title[1]) /= ""
    /\ en.summary /= None /\ Trim(en.summary[1]) /= ""
    /\ \E i \in DOMAIN en.authors : Trim(en.authors[i]) /= ""

ValidEntries(doc) == SelectSeq(doc.entries, ValidEntry)

\* C12: for a feed, parseArxivFeed returns one Paper for each valid entry and
\* none for the others, in the order of the feed, each with the entry's
\* trimmed id, title and summary; an entry that is not valid or whose
\* extraction throws does not keep a later valid entry from being returned.
C12_ValidEntriesInOrder ==
    (Parsed /\ pDoc.wellFormed) =>
        /\ Len(pOut[1]) = Len(ValidEntries(pDoc))
        /\ \A i \in DOMAIN pOut[1] :
              /\ pOut[1][i].id = TextOf(ValidEntries(pDoc)[i].id)
              /\ pOut[1][i].title = Trim(ValidEntries(pDoc)[i].title[1])
              /\ pOut[1][i].summary = Trim(ValidEntries(pDoc)[i].summary[1])

\* A feed whose first entry throws and whose second entry is valid was
\* parsed, and the second entry was returned.
C12_Witness ==
    /\ Parsed /\ pDoc.wellFormed
    /\ Len(pDoc.entries) = 2
    /\ pDoc.entries[1].throws
    /\ pDoc.entries[2] = EntryIdOnly
    /\ Len(pOut[1]) = 1
    /\ pOut[1][1].title = "Retrieval"

C12_WitnessDropped ==
    /\ Parsed /\ pDoc.wellFormed
    /\ pDoc.entries = <<EntryNoAuthor, EntryFull>>
    /\ Len(pOut[1]) = 1

\* The part of s after its last "/".
RECURSIVE LastSegment(_)
LastSegment(s) ==
    IF IndexOf(s, "/") = 0 THEN s
    ELSE LastSegment(SubSeq(s, IndexOf(s, "/") + 1, Len(s)))

\* The entry has no link element that the parser takes as abstract or pdf
\* link.
NoAbsOrPdfLink(en) ==
    \A i \in DOMAIN en.links :
        en.links[i].title /= "pdf" /\ ~Contains(en.links[i].href, "/abs/")

IdOnly(en) == TextOf(en.id) /= "" /\ NoAbsOrPdfLink(en)

-----------------------------------------------------------------------------
(* SpecApp: the App component, its handlers, effects and loadPapers calls *)

MaxLoads == 4

\* The day of the month of new Date() in the model: the 31st of January 2024.
TodayOfMonth == 31

\* formatDateForArxiv on a day of January 2024
formatDateForArxiv(day) == "202401" \o (IF day < 10 THEN "0" ELSE "") \o ToString(day)

\* getDateRangeFromDays(days), for a window inside the month
getDateRangeFromDays(days) ==
    [ from |-> formatDateForArxiv(TodayOfMonth - days), to |-> formatDateForArxiv(TodayOfMonth) ]

\* The tabs, search texts, keyword selections, presets and custom windows
\* the user can hand to the handlers.
AppTopics == { "llm-nlp", "computer-vision" }

AppSearches == { "gpt-4" }

AppKeywordLists == { <<>>, <<"RAG">> }

AppPresets == { 7, 14 }

AppCustomRanges == { [ from |-> "20240101", to |-> "20240115" ] }

\* The totals the endpoint reports.
AppTotals == { 45 }

\* The date window loadPapers builds from the state (part_006:55-64)
dateRangeOf(st) ==
    IF st.mode /= "relevance" THEN [ from |-> None, to |-> None ]
    ELSE IF IsSome(st.customDateRange)
         THEN [ from |-> Some(st.customDateRange[1].from), to |-> Some(st.customDateRange[1].to) ]
    ELSE IF IsSome(st.selectedDateRange)
         THEN [ from |-> Some(getDateRangeFromDays(st.selectedDateRange[1].days).from),
                to |-> Some(getDateRangeFromDays(st.selectedDateRange[1].days).to) ]
    ELSE [ from |-> None, to |-> None ]

\* The filter loadPapers hands to fetchPapers (part_006:66-74)
paramsOf(st, page) ==
    [ topic |-> st.currentTopic,
      mode |-> Some(st.mode),
      search |-> IF st.searchQuery = "" THEN None ELSE Some(st.searchQuery),
      keywords |-> IF Len(st.selectedKeywords) > 0 THEN Some(st.selectedKeywords) ELSE None,
      from |-> dateRangeOf(st).from,
      to |-> dateRangeOf(st).to,
      page |-> Some(page),
      pageSize |-> None ]

\* loadPapers(append) called from the render with state st, up to its
\* await: loading is set, and fetchPapers is called with the filter of st.
loadPapers(st, append, page) ==
    /\ Len(loads) < MaxLoads
    /\ app' = [st EXCEPT !.loading = TRUE, !.error = None]
    /\ loads' = Append(loads, [ params |-> paramsOf(st, page), append |-> append,
                                page |-> page, status |-> "pending" ])

\* The guard of the effect that loads the papers (part_006:163-167)
effectGuard(st) == IsSome(st.currentTopic) \/ st.searchQuery /= "" \/ st.mode = "relevance"

\* The render that follows a handler's setState, with the effect on the
\* filter fields: it runs when one of its dependencies changed, and calls
\* loadPapers(false) when its guard holds.
renderAndEffect(st, depsChanged) ==
    IF depsChanged /\ effectGuard(st)
    THEN loadPapers(st, FALSE, 0)
    ELSE app' = st /\ loads' = loads

InitApp ==
    /\ app = AppInitial
    /\ loads = <<>>
    /\ QueryIdle
    /\ KeyIdle
    /\ FetchIdle
    /\ ParseIdle
    /\ WidgetIdle

appFrame == UNCHANGED <<queryVars, keyVars, fetchVars, parseVars, widgetVars>>

\* The first render: the mount effect sets the topic, and the effect on the
\* filter fields runs.
Mount ==
    /\ ~app.mounted
    /\ renderAndEffect([app EXCEPT !.mounted = TRUE, !.currentTopic = Some("llm-nlp")], TRUE)
    /\ appFrame

\* A tab is chosen; the tabs are shown outside search and relevance mode.
handleTopicChange ==
    /\ app.mounted /\ app.searchQuery = "" /\ app.mode /= "relevance"
    /\ \E topic \in AppTopics :
         IF Some(topic) /= app.currentTopic
         THEN renderAndEffect([app EXCEPT !.currentTopic = Some(topic), !.searchQuery = "",
                                          !.selectedKeywords = <<>>, !.currentPage = 0], TRUE)
         ELSE app' = app /\ loads' = loads
    /\ appFrame

\* A search is submitted from the search bar (enabled while not loading),
\* or cleared: with the bar's X while not loading, or with the clear button
\* shown in search mode. Each call sets a new keyword array, so the effect
\* runs.
handleSearch ==
    /\ app.mounted
    /\ \E query \in AppSearches \cup { "" } :
         /\ (~app.loading \/ (query = "" /\ app.searchQuery /= ""))
         /\ renderAndEffect([app EXCEPT !.searchQuery = query,
                                        !.currentTopic = IF query /= "" THEN None ELSE @,
                                        !.selectedKeywords = <<>>, !.currentPage = 0], TRUE)
    /\ appFrame

\* A sort mode is chosen; entering relevance mode without a preset sets the
\* 14 days preset as a new object.
handleModeChange ==
    /\ app.mounted
    /\ \E mode \in { "latest", "relevance" } :
         LET fresh == mode = "relevance" /\ app.selectedDateRange = None
         IN  renderAndEffect(
                 [app EXCEPT !.mode = mode, !.currentPage = 0,
                             !.selectedDateRange =
                                 IF fresh THEN Some([ days |-> 14, preset |-> FALSE ]) ELSE @],
                 mode /= app.mode \/ fresh)
    /\ appFrame

\* A preset or a custom window is applied in the DateRangeSelector, which is
\* shown in relevance mode: a preset is one of the DATE_RANGES objects, a
\* custom window a new object.
handleDateRangeChange ==
    /\ app.mounted /\ app.mode = "relevance"
    /\ \/ \E days \in AppPresets :
            renderAndEffect(
                [app EXCEPT !.selectedDateRange = Some([ days |-> days, preset |-> TRUE ]),
                            !.customDateRange = None, !.currentPage = 0],
                app.selectedDateRange /= Some([ days |-> days, preset |-> TRUE ])
                    \/ app.customDateRange /= None)
       \/ \E custom \in AppCustomRanges :
            renderAndEffect(
                [app EXCEPT !.selectedDateRange = None,
                            !.customDateRange = Some(custom), !.currentPage = 0], TRUE)
    /\ appFrame

\* The KeywordsSelector, shown in relevance mode, reports a new selection.
handleKeywordsChange ==
    /\ app.mounted /\ app.mode = "relevance"
    /\ \E keywords \in AppKeywordLists :
         /\ keywords /= app.selectedKeywords
         /\ renderAndEffect([app EXCEPT !.selectedKeywords = keywords, !.currentPage = 0],
                            TRUE)
    /\ appFrame

hasMoreResults(st) == st.loadedResults < st.totalResults

\* The Load More button: shown under the papers when there are more
\* results, disabled while loading.
handleLoadMore ==
    /\ app.mounted /\ app.error = None /\ Len(app.papers) > 0
    /\ hasMoreResults(app) /\ ~app.loading
    /\ loadPapers(app, TRUE, app.currentPage + 1)
    /\ appFrame

\* The retry button of the error state.
handleRetry ==
    /\ app.mounted /\ app.error /= None
    /\ loadPapers(app, FALSE, 0)
    /\ appFrame

\* fetchPapers of load i resolves, and loadPapers applies the response.
LoadResolves ==
    \E i \in DOMAIN loads : \E total \in AppTotals :
        /\ loads[i].status = "pending"
        /\ loads' = [loads EXCEPT ![i].status = "done"]
        /\ app' = [app EXCEPT
                     !.papers = IF loads[i].append THEN @ \o << loads[i].params >>
                                ELSE << loads[i].params >>,
                     !.totalResults = total,
                     !.loadedResults = (loads[i].page + 1) * 20,
                     !.loading = FALSE,
                     !.currentPage = loads[i].page]
        /\ appFrame

\* fetchPapers of load i rejects, and loadPapers shows the message.
LoadRejects ==
    \E i \in DOMAIN loads :
        /\ loads[i].status = "pending"
        /\ loads' = [loads EXCEPT ![i].status = "failed"]
        /\ app' = [app EXCEPT !.loading = FALSE, !.error = Some("Failed to fetch")]
        /\ appFrame

NextApp ==
    \/ Mount \/ handleTopicChange \/ handleSearch \/ handleModeChange
    \/ handleDateRangeChange \/ handleKeywordsChange \/ handleLoadMore \/ handleRetry
    \/ LoadResolves \/ LoadRejects

SpecApp == InitApp /\ [][NextApp]_vars

-----------------------------------------------------------------------------
(* Claims about the App, under SpecApp *)

\* A step that clears the search.
ClearsSearch == app.searchQuery /= "" /\ app'.searchQuery = ""

\* The step calls loadPapers for a filter with a topic and without search.
IssuesTopicQuery ==
    /\ Len(loads') = Len(loads) + 1
    /\ IsSome(loads'[Len(loads')].params.topic)
    /\ loads'[Len(loads')].params.search = None

NoLoadPending == \A i \in DOMAIN loads : loads[i].status /= "pending"

\* C20 as stated (refuted by the code): a step that clears the search issues
\* a topic query; and when the search is empty and no load is pending, the
\* papers shown are those of topic queries.
C20_ClearReturnsToTopic ==
    /\ [][ClearsSearch => IssuesTopicQuery]_vars
    /\ [](( app.mounted /\ app.searchQuery = "" /\ NoLoadPending /\ app.error = None) =>
            \A i \in DOMAIN app.papers :
                IsSome(app.papers[i].topic) /\ app.papers[i].search = None)

LoadPending == \E i \in DOMAIN loads : loads[i].status = "pending"

\* The loadPapers call issued last.
LastLoad == loads[Len(loads)]

\* C26 as stated (refuted by the code): once no load is in flight and the
\* load issued last has succeeded, the papers shown end with the page of
\* that load, and are that page alone when it was no Load More.
C26_SupersededDiscarded ==
    (Len(loads) > 0 /\ ~LoadPending /\ LastLoad.status = "done") =>
        /\ app.papers /= <<>>
        /\ app.papers[Len(app.papers)] = LastLoad.params
        /\ ~LastLoad.append => app.papers = << LastLoad.params >>
        /\ app.currentPage = LastLoad.page

\* C27 as stated (refuted by the code): loading is true exactly when a
\* loadPapers call is in flight.
C27_LoadingWhilePending == app.loading <=> LoadPending

\* The filter of a load, without its page.
FilterOf(load) == [load.params EXCEPT !.page = None]

\* Every load so far was issued for the filter of the first one.
FiltersUnchanged == \A i \in DOMAIN loads : FilterOf(loads[i]) = FilterOf(loads[1])

\* A Load More is issued in this step.
LoadMoreIssued ==
    /\ Len(loads') = Len(loads) + 1
    /\ loads'[Len(loads')].append

\* The response of the Load More i is applied in this step.
LoadMoreApplied(i) ==
    /\ loads[i].append
    /\ loads[i].status = "pending"
    /\ loads'[i].status = "done"

\* C28 as stated (refuted by the code): while every load is issued for the
\* same filter, with the total the endpoint reports fixed, a Load More is
\* issued only while the results loaded are fewer than the total and requests
\* the page after currentPage, and its response raises loadedResults by 20;
\* and loading is true while a load is in flight, which disables Load More.
C28_LoadMoreTerminates ==
    /\ [][ FiltersUnchanged =>
              /\ LoadMoreIssued =>
                    /\ hasMoreResults(app)
                    /\ loads'[Len(loads')].page = app.currentPage + 1
              /\ \A i \in DOMAIN loads :
                    LoadMoreApplied(i) => app'.loadedResults = app.loadedResults + 20 ]_vars
    /\ []((FiltersUnchanged /\ LoadPending) => app.loading)

-----------------------------------------------------------------------------
(* SpecKeywords: the KeywordsSelector and its operations *)

MaxSelected == 4

\* The topic prop of the selector, and the suggestions it shows.
SelectorTopic == "multimodal"

suggestedKeywords ==
    IF SelectorTopic /= "" /\ InTOPICS(SelectorTopic) THEN TOPICS[SelectorTopic].keywords ELSE <<>>

\* The texts typed into the input for a custom keyword.
CustomTexts == { "", "  ", " VLM ", " vlm" }

\* The selections the selector starts from: each without duplicates.
StartSelections == { <<>>, <<"VLM">>, <<"multimodal", "vlm">> }

\* Array.prototype.includes and filter(k => k !== keyword)
Includes(xs, x) == \E i \in DOMAIN xs : xs[i] = x

Without(xs, x) == SelectSeq(xs, LAMBDA k : k /= x)

InitKeywords ==
    /\ \E selected \in StartSelections :
          kwSel = [KeywordsInitial EXCEPT !.selectedKeywords = selected]
    /\ drSel = DateRangeInitial
    /\ QueryIdle
    /\ KeyIdle
    /\ FetchIdle
    /\ ParseIdle
    /\ AppIdle

keywordsFrame == UNCHANGED <<queryVars, keyVars, fetchVars, parseVars, appVars, drSel>>

\* What an operation hands to onKeywordsChange, with the selection it saw.
Reported(op, keyword) ==
    Some([ op |-> op, keyword |-> keyword, before |-> kwSel.selectedKeywords ])

\* The button that opens the input for a custom keyword.
openCustomInput ==
    /\ ~kwSel.showCustomInput
    /\ kwSel' = [kwSel EXCEPT !.showCustomInput = TRUE]
    /\ keywordsFrame

\* The input's onChange.
setCustomKeyword ==
    /\ kwSel.showCustomInput
    /\ \E text \in CustomTexts :
          kwSel' = [kwSel EXCEPT !.customKeyword = text]
    /\ keywordsFrame

\* The cancel button.
cancelCustomInput ==
    /\ kwSel.showCustomInput
    /\ kwSel' = [kwSel EXCEPT !.showCustomInput = FALSE, !.customKeyword = ""]
    /\ keywordsFrame

\* A suggestion is clicked.
toggleKeyword ==
    /\ \E i \in DOMAIN suggestedKeywords :
         \E keyword \in { suggestedKeywords[i] } :
            IF Includes(kwSel.selectedKeywords, keyword)
            THEN kwSel' = [kwSel EXCEPT !.selectedKeywords = Without(@, keyword),
                                        !.last = Reported("toggle", keyword)]
            ELSE /\ Len(kwSel.selectedKeywords) < MaxSelected
                 /\ kwSel' = [kwSel EXCEPT !.selectedKeywords = Append(@, keyword),
                                           !.last = Reported("toggle", keyword)]
    /\ keywordsFrame

\* Mutant of addCustomKeyword: the typed text is tested as it is, and its
\* trimmed form is added.
addCustomKeyword_noTrim ==
    /\ kwSel.showCustomInput
    /\ kwSel.customKeyword /= ""
    /\ ~Includes(kwSel.selectedKeywords, kwSel.customKeyword)
    /\ Len(kwSel.selectedKeywords) < MaxSelected
    /\ kwSel' = [kwSel EXCEPT !.selectedKeywords = Append(@, Trim(kwSel.customKeyword)),
                              !.customKeyword = "",
                              !.showCustomInput = FALSE,
                              !.last = Reported("add", Trim(kwSel.customKeyword))]
    /\ keywordsFrame

\* Enter in the input, or the add button: the trimmed text is added when it
\* is not empty and not selected already.
addCustomKeyword ==
    /\ kwSel.showCustomInput
    /\ Trim(kwSel.customKeyword) /= ""
    /\ ~Includes(kwSel.selectedKeywords, Trim(kwSel.customKeyword))
    /\ Len(kwSel.selectedKeywords) < MaxSelected
    /\ kwSel' = [kwSel EXCEPT !.selectedKeywords = Append(@, Trim(kwSel.customKeyword)),
                              !.customKeyword = "",
                              !.showCustomInput = FALSE,
                              !.last = Reported("add", Trim(kwSel.customKeyword))]
    /\ keywordsFrame

\* The button of a selected keyword.
removeKeyword ==
    /\ \E i \in DOMAIN kwSel.selectedKeywords :
         \E keyword \in { kwSel.selectedKeywords[i] } :
            kwSel' = [kwSel EXCEPT !.selectedKeywords = Without(@, keyword),
                                   !.last = Reported("remove", keyword)]
    /\ keywordsFrame

NextKeywords ==
    \/ openCustomInput \/ setCustomKeyword \/ cancelCustomInput
    \/ toggleKeyword \/ addCustomKeyword \/ removeKeyword

SpecKeywords == InitKeywords /\ [][NextKeywords]_vars

NoDuplicates(xs) == \A i, j \in DOMAIN xs : xs[i] = xs[j] => i = j

\* The position of keyword x in xs.
PositionIn(xs, x) == CHOOSE i \in DOMAIN xs : xs[i] = x

\* ys holds the keywords of xs other than k, in the order of xs, and not k.
OthersInPlace(xs, k, ys) ==
    /\ ~Includes(ys, k)
    /\ \A i \in DOMAIN xs : xs[i] /= k => Includes(ys, xs[i])
    /\ \A i \in DOMAIN ys : Includes(xs, ys[i])
    /\ \A i, j \in DOMAIN xs :
          (i < j /\ xs[i] /= k /\ xs[j] /= k) => PositionIn(ys, xs[i]) < PositionIn(ys, xs[j])

\* C29: the selection holds no keyword twice and no keyword that is empty or
\* made of whitespace, and right after removeKeyword(k) it holds the keywords
\* it held before other than k, in their order.
C29_SelectionWellFormed ==
    /\ NoDuplicates(kwSel.selectedKeywords)
    /\ \A i \in DOMAIN kwSel.selectedKeywords : Trim(kwSel.selectedKeywords[i]) /= ""
    /\ (IsSome(kwSel.last) /\ kwSel.last[1].op = "remove") =>
          OthersInPlace(kwSel.last[1].before, kwSel.last[1].keyword, kwSel.selectedKeywords)

\* The middle one of three keywords was removed, a typed keyword being
\* among those that stay.
C29_Witness ==
    /\ IsSome(kwSel.last) /\ kwSel.last[1].op = "remove"
    /\ Len(kwSel.last[1].before) = 3
    /\ kwSel.last[1].before[2] = kwSel.last[1].keyword
    /\ Includes(kwSel.selectedKeywords, "vlm")
    /\ Len(kwSel.selectedKeywords) = 2

\* A typed text was refused: the input is open with a text whose trimmed
\* form is selected already, after a keyword was added from the input.
C29_WitnessRefused ==
    /\ kwSel.showCustomInput
    /\ kwSel.customKeyword = " VLM "
    /\ Includes(kwSel.selectedKeywords, "VLM")
    /\ Includes(kwSel.selectedKeywords, "vlm")
    /\ ~ENABLED addCustomKeyword

-----------------------------------------------------------------------------
(* SpecDates: the DateRangeSelector and its operations *)

\* The days of the DATE_RANGES presets.
DATE_RANGES == { 7, 14, 30 }

\* The values a date input hands to onChange: empty, or year-month-day.
DateInputValues == { "", "2024-01-01", "2024-01-15", "2024-01-31" }

\* replace(/-/g, '')
RECURSIVE StripHyphens(_)
StripHyphens(s) ==
    IF s = "" THEN ""
    ELSE (IF SubSeq(s, 1, 1) = "-" THEN "" ELSE SubSeq(s, 1, 1))
            \o StripHyphens(SubSeq(s, 2, Len(s)))

InitDates ==
    /\ drSel = DateRangeInitial
    /\ kwSel = KeywordsInitial
    /\ QueryIdle
    /\ KeyIdle
    /\ FetchIdle
    /\ ParseIdle
    /\ AppIdle

datesFrame == UNCHANGED <<queryVars, keyVars, fetchVars, parseVars, appVars, kwSel>>

\* A preset button.
handlePresetSelect ==
    /\ \E days \in DATE_RANGES :
          drSel' = [drSel EXCEPT !.showCustom = FALSE,
                                 !.reported = Some([ range |-> Some(days),
                                                     customRange |-> None ])]
    /\ datesFrame

\* The button that shows or hides the custom inputs.
toggleCustom ==
    /\ drSel' = [drSel EXCEPT !.showCustom = ~@]
    /\ datesFrame

\* onChange of the two date inputs.
setCustomFrom ==
    /\ drSel.showCustom
    /\ \E value \in DateInputValues :
          drSel' = [drSel EXCEPT !.customFrom = StripHyphens(value)]
    /\ datesFrame

setCustomTo ==
    /\ drSel.showCustom
    /\ \E value \in DateInputValues :
          drSel' = [drSel EXCEPT !.customTo = StripHyphens(value)]
    /\ datesFrame

\* The apply button, enabled when both dates are set.
handleCustomApply ==
    /\ drSel.showCustom
    /\ drSel.customFrom /= "" /\ drSel.customTo /= ""
    /\ drSel' = [drSel EXCEPT
                   !.showCustom = FALSE,
                   !.reported = Some([ range |-> None,
                                       customRange |->
                                           Some([ from |-> StripHyphens(drSel.customFrom),
                                                  to |-> StripHyphens(drSel.customTo) ]) ])]
    /\ datesFrame

NextDates ==
    handlePresetSelect \/ toggleCustom \/ setCustomFrom \/ setCustomTo \/ handleCustomApply

SpecDates == InitDates /\ [][NextDates]_vars

DigitChars == { "0", "1", "2", "3", "4", "5", "6", "7", "8", "9" }

DigitValue(c) == CHOOSE d \in 0..9 : ToString(d) = c

\* The number a string of digits denotes.
RECURSIVE NumberOf(_)
NumberOf(s) ==
    IF s = "" THEN 0
    ELSE 10 * NumberOf(SubSeq(s, 1, Len(s) - 1)) + DigitValue(SubSeq(s, Len(s), Len(s)))

EightDigits(s) == Len(s) = 8 /\ Chars(s) \subseteq DigitChars

\* C30 as stated (refuted by the code): every custom range reported through
\* onRangeChange has both dates set, each of 8 digits, with from <= to.
C30_CustomRangeValid ==
    (IsSome(drSel.reported) /\ IsSome(drSel.reported[1].customRange)) =>
        /\ EightDigits(drSel.reported[1].customRange[1].from)
        /\ EightDigits(drSel.reported[1].customRange[1].to)
        /\ NumberOf(drSel.reported[1].customRange[1].from)
              <= NumberOf(drSel.reported[1].customRange[1].to)

====
